---- MODULE Spec2Model ----
(***************************************************************************)
(* B-Store server, cloud variant (src/unnamed/part_001, lines 111-359):    *)
(* an Express application that keeps three JSON documents (products,      *)
(* receipts, settings) as raw objects in Cloudinary and product, receipt   *)
(* and QR-code images as image objects in Cloudinary.                      *)
(*                                                                         *)
(* A request is a process: it arrives (the multer middleware starts the    *)
(* upload of the attached file and waits for Cloudinary), then runs its     *)
(* async handler, which gives up control at                                *)
(* every await on network I/O (the load of a document, the destroy of an   *)
(* image).  Code between two such awaits runs to completion and is one     *)
(* action.  A load is two calls that the store serves one after the other  *)
(* (the lookup of the document, then the fetch of its text); its answer    *)
(* is what the store held when it served them and reaches the handler in a *)
(* later step.  saveJsonToCloudinary awaits a stream, not a promise, so a  *)
(* save                                                                    *)
(* only STARTS an upload: the upload is a message in flight that lands, or *)
(* fails, later (JsonUploadDone).                                          *)
(***************************************************************************)
EXTENDS Integers, Sequences, FiniteSets, TLC

\* ------------------------------------------------------------------ bounds
\* Number of requests the clients issue in one behaviour: against one
\* collection (products, receipts or settings alone), and against all three.
MaxReq == 3
MaxReqAll == 2
\* Last reading of the millisecond clock (Date.now()); the first is 1.
MaxClock == 2
\* Number of failing network calls (load, destroy, raw upload) in one behaviour.
MaxFaults == 1

\* --------------------------------------------------------------- constants
\* limits: { fileSize: 5 * 1024 * 1024 }
FileSizeLimit == 5242880

Slots == 1..MaxReq

\* JavaScript's undefined (a field the client did not send).
Undefined == "undefined"

DocNames == {"products", "receipts", "settings"}

\* The default value each call site passes to ensureJsonExists.
DefaultOf(name) == IF name = "settings" THEN [qrCodeUrl |-> ""] ELSE <<>>

\* ------------------------------------------------------------------- files
\* A multipart file part: its real image format and its size in bytes;
\* NoFile is a request without the file part.
NoFile == [fmt |-> "none", size |-> 0]
Files ==
  { NoFile,
    [fmt |-> "jpg", size |-> 1],
    [fmt |-> "jpg", size |-> FileSizeLimit + 1],
    [fmt |-> "gif", size |-> 1],
    [fmt |-> "pdf", size |-> 1] }

\* req.file when multer stored nothing.
NoStored == [path |-> Undefined, filename |-> Undefined]

ImageFormats == {"jpg", "png", "jpeg", "gif"}
QrFormats == {"jpg", "png", "jpeg"}

\* The secure URL Cloudinary returns for a public id (req.file.path).
SecureUrl(pid) == "https://res.cloudinary.com/" \o pid

\* imageStorage params: folder bstore_products, public_id Date.now().toString().
ImagePublicId(t) == "bstore_products/" \o ToString(t)

\* qrStorage params: folder bstore_qrcodes, public_id store_qrcode.
QrPublicId == "bstore_qrcodes/store_qrcode"

\* uploadImage = multer({storage: imageStorage, limits: {fileSize}}): the
\* outcome of the middleware for file part f at clock reading t.
\* "none": no file part, req.file stays undefined; "error": the upload is
\* refused (format not in allowed_formats, or LIMIT_FILE_SIZE) and the error
\* goes to Express: the handler never runs; "stored": the image is stored.
UploadImageOutcome(f) ==
  IF f = NoFile THEN "none"
  ELSE IF f.fmt \notin ImageFormats THEN "error"
  ELSE IF f.size > FileSizeLimit THEN "error"
  ELSE "stored"

\* uploadQR = multer({storage: qrStorage}): no limits option.
UploadQrOutcome(f) ==
  IF f = NoFile THEN "none"
  ELSE IF f.fmt \notin QrFormats THEN "error"
  ELSE "stored"

\* req.file after a stored upload under public id pid.
StoredFile(pid) == [path |-> SecureUrl(pid), filename |-> pid]

\* -------------------------------------------------------------------- JSON
\* Keys whose value is copied from req.body unchanged and so may be undefined.
BodyKeys == {"name", "price", "description"}

\* Keys whose value is never a string and never undefined: id is a reading of
\* Date.now(), cartItems the array that map returns.
ValueKeys == {"id", "cartItems"}

\* JSON.stringify of one object: every key whose value is undefined is left
\* out.
StringifyObject(o) ==
  [k \in {k \in DOMAIN o : k \in ValueKeys \/ o[k] # Undefined} |-> o[k]]

\* JSON.stringify(jsonData, null, 2) of a document, as the value its text
\* denotes: an array of objects (products, receipts) or one object (settings).
JSONstringify(name, v) ==
  IF name = "settings" THEN StringifyObject(v)
  ELSE [i \in 1..Len(v) |-> StringifyObject(v[i])]

\* res.json() of the fetched text: the value the text denotes.
JSONparse(text) == text

\* o.k in JavaScript: undefined when the object has no such key.
Get(o, k) == IF k \in DOMAIN o THEN o[k] ELSE Undefined

\* a || b on strings and undefined: undefined and "" are falsy.
Or(a, b) == IF a = Undefined \/ a = "" THEN b ELSE a

\* A path parameter is a sequence of characters, so that parseInt can read it.
DecimalDigits == <<"0", "1", "2", "3", "4", "5", "6", "7", "8", "9">>
Letters ==
  <<"a", "b", "c", "d", "e", "f", "g", "h", "i", "j", "k", "l", "m",
    "n", "o", "p", "q", "r", "s", "t", "u", "v", "w", "x", "y", "z">>
Capitals ==
  <<"A", "B", "C", "D", "E", "F", "G", "H", "I", "J", "K", "L", "M",
    "N", "O", "P", "Q", "R", "S", "T", "U", "V", "W", "X", "Y", "Z">>

\* StrWhiteSpaceChar, the characters parseInt skips: TAB, LF, CR, FF, SP, then
\* VT (U+000B), NBSP (U+00A0), OGHAM SPACE MARK (U+1680) and ZWNBSP (U+FEFF)
\* written as themselves, then the space separators and line terminators from
\* U+2000 on, which a string of this language cannot hold and which are
\* written by their code point.
WhiteSpace ==
  {"\t", "\n", "\r", "\f", " ", "", " ", " ", "﻿",
   "U+2000", "U+2001", "U+2002", "U+2003", "U+2004", "U+2005", "U+2006",
   "U+2007", "U+2008", "U+2009", "U+200A", "U+2028", "U+2029", "U+202F",
   "U+205F", "U+3000"}

\* The value of character c as a digit (0-9, then a-z or A-Z for 10-35); 36
\* (no digit of any radix) otherwise.
DigitValue(c) ==
  IF \E d \in 1..10 : DecimalDigits[d] = c
  THEN (CHOOSE d \in 1..10 : DecimalDigits[d] = c) - 1
  ELSE IF \E d \in 1..26 : Letters[d] = c \/ Capitals[d] = c
  THEN (CHOOSE d \in 1..26 : Letters[d] = c \/ Capitals[d] = c) + 9
  ELSE 36

\* The number of white space characters s starts with.
LeadingWhiteSpace(s) ==
  CHOOSE n \in 0..Len(s) :
    /\ \A i \in 1..n : s[i] \in WhiteSpace
    /\ n = Len(s) \/ s[n + 1] \notin WhiteSpace

\* The number of digits of the radix s starts with.
LeadingDigits(s, radix) ==
  CHOOSE n \in 0..Len(s) :
    /\ \A i \in 1..n : DigitValue(s[i]) < radix
    /\ n = Len(s) \/ DigitValue(s[n + 1]) >= radix

\* s without its first n characters.
Drop(s, n) == SubSeq(s, n + 1, Len(s))

\* Numbers of any size are numerals: the sequence of their limbs (digits in
\* a large base), least significant first, without leading zeros (the empty
\* sequence is 0).  Binary numerals have limbs of LimbBits bits, decimal
\* numerals limbs of DecimalLimbDigits decimal digits.
LimbBits == 15
Limb == 32768
DecimalLimbDigits == 4
DecimalLimb == 10000

\* b to the power n.
RECURSIVE Power(_, _)
Power(b, n) == IF n = 0 THEN 1 ELSE b * Power(b, n - 1)

\* Numeral acc times m plus c, in base b.
RECURSIVE MulAdd(_, _, _, _)
MulAdd(acc, m, c, b) ==
  IF acc = <<>>
  THEN IF c = 0 THEN <<>> ELSE <<c % b>> \o MulAdd(<<>>, m, c \div b, b)
  ELSE <<(acc[1] * m + c) % b>>
       \o MulAdd(Tail(acc), m, (acc[1] * m + c) \div b, b)

\* The digits of the radix that are read as one chunk (radix to that power
\* is at most 2^16).
ChunkLen(radix) ==
  IF radix = 2 THEN 16
  ELSE IF radix <= 4 THEN 8
  ELSE IF radix <= 6 THEN 6
  ELSE IF radix <= 9 THEN 5
  ELSE IF radix <= 16 THEN 4
  ELSE 3

\* The number that the digit values ds[i..k] denote in the radix.
RECURSIVE ChunkValue(_, _, _, _)
ChunkValue(ds, i, k, radix) ==
  IF i > k THEN 0 ELSE ChunkValue(ds, i, k - 1, radix) * radix + ds[k]

\* The binary numeral of the number that the first k of the digit values ds
\* (most significant first) denote in the radix.
RECURSIVE NumeralUpTo(_, _, _)
NumeralUpTo(ds, k, radix) ==
  IF k <= 0 THEN <<>>
  ELSE MulAdd(NumeralUpTo(ds, k - ChunkLen(radix), radix),
              Power(radix, ChunkLen(radix)),
              ChunkValue(ds, IF k > ChunkLen(radix)
                             THEN k - ChunkLen(radix) + 1 ELSE 1, k, radix),
              Limb)

\* The number of significant bits of a binary numeral.
BitLength(limbs) ==
  IF limbs = <<>> THEN 0
  ELSE LimbBits * (Len(limbs) - 1)
       + (CHOOSE n \in 1..LimbBits :
            /\ Power(2, n - 1) <= limbs[Len(limbs)]
            /\ limbs[Len(limbs)] < Power(2, n))

\* Bit i of a binary numeral, bit 1 being the least significant.
Bit(limbs, i) ==
  IF i > LimbBits * Len(limbs) THEN 0
  ELSE (limbs[((i - 1) \div LimbBits) + 1] \div Power(2, (i - 1) % LimbBits)) % 2

\* The limb that bits j..LimbBits of the k-th group of LimbBits bits make.
RECURSIVE LimbOf(_, _, _)
LimbOf(bits, k, j) ==
  IF j > LimbBits THEN 0
  ELSE bits[LimbBits * (k - 1) + j] + 2 * LimbOf(bits, k, j + 1)

\* The Number value of an integer given as a binary numeral: a double keeps
\* 53 significant bits, the rest is rounded to nearest, ties to even.
RoundToDouble(limbs) ==
  LET l == BitLength(limbs)
      low == l - 52
      up == /\ Bit(limbs, low - 1) = 1
            /\ \/ Bit(limbs, low) = 1
               \/ \E i \in 1..(low - 2) : Bit(limbs, i) = 1
      carried(i) == up /\ \A j \in low..(i - 1) : Bit(limbs, j) = 1
      rounded == [i \in 1..(LimbBits * (Len(limbs) + 1)) |->
                    IF i < low THEN 0
                    ELSE IF carried(i) THEN 1 - Bit(limbs, i)
                    ELSE Bit(limbs, i)]
      n == IF carried(LimbBits * Len(limbs) + 1)
           THEN Len(limbs) + 1 ELSE Len(limbs)
  IN IF l <= 53 THEN limbs
     ELSE SubSeq([k \in 1..n |-> LimbOf(rounded, k, 1)], 1, n)

\* The radixes whose numerals are read exactly and rounded once: 10 and the
\* powers of two.
ExactRadixes == {2, 4, 8, 10, 16, 32}

\* With any other radix the digits are read in parts, each as long as its
\* multiplier (the radix to the power of the part's length) stays within
\* 0xFFFFFFFF / 36.
MaximumMultiplier == 119304647

\* The number of digits of a part whose multiplier has come to multiplier.
RECURSIVE PartDigits(_, _)
PartDigits(radix, multiplier) ==
  IF multiplier > MaximumMultiplier \div radix THEN 0
  ELSE 1 + PartDigits(radix, multiplier * radix)

\* Binary numeral limbs times the radix to the power k.
RECURSIVE TimesPower(_, _, _)
TimesPower(limbs, radix, k) ==
  IF k = 0 THEN limbs
  ELSE MulAdd(TimesPower(limbs, radix, k - 1), radix, 0, Limb)

\* The largest bit length of a finite double; a longer numeral is Infinity.
DoubleBits == 1024

\* result = result * multiplier + part in double arithmetic, part after
\* part, for the digit values ds[start..n]: the product and the sum are each
\* rounded to a double.  A result that has become Infinity stays Infinity.
RECURSIVE Accumulated(_, _, _, _, _)
Accumulated(ds, result, start, n, radix) ==
  IF start > n \/ BitLength(result) > DoubleBits THEN result
  ELSE LET len == PartDigits(radix, 1)
           stop == IF start + len - 1 < n THEN start + len - 1 ELSE n
       IN Accumulated(ds,
            RoundToDouble(
              MulAdd(RoundToDouble(TimesPower(result, radix, stop - start + 1)),
                     1, ChunkValue(ds, start, stop, radix), Limb)),
            stop + 1, n, radix)

\* The decimal numeral of the limbs from the k-th on of a binary numeral.
RECURSIVE DecimalFrom(_, _)
DecimalFrom(limbs, k) ==
  IF k > Len(limbs) THEN <<>>
  ELSE MulAdd(DecimalFrom(limbs, k + 1), Limb, limbs[k], DecimalLimb)

\* The decimal digits, most significant first, of a decimal numeral.
Digits(limbs) ==
  LET top == limbs[Len(limbs)]
      n == DecimalLimbDigits * (Len(limbs) - 1)
           + (CHOOSE d \in 1..DecimalLimbDigits :
                Power(10, d - 1) <= top /\ top < Power(10, d))
      digit(p) == (limbs[(p \div DecimalLimbDigits) + 1]
                   \div Power(10, p % DecimalLimbDigits)) % 10
  IN IF limbs = <<>> THEN <<"0">>
     ELSE [i \in 1..n |-> DecimalDigits[digit(n - i) + 1]]

\* The decimal digits, most significant first, of a natural number.
RECURSIVE Decimal(_)
Decimal(n) ==
  IF n < 10 THEN <<DecimalDigits[n + 1]>>
  ELSE Decimal(n \div 10) \o <<DecimalDigits[(n % 10) + 1]>>

\* parseInt(string, radix), radix 0 standing for a radix not given: leading
\* white space is skipped, a sign is read, a radix other than 0 and outside
\* 2..36 gives NaN, with radix 16 or none a prefix 0x selects radix 16, and
\* the longest prefix of digits of the radix is the number; NaN when there is
\* no digit.  With radix 10 or a power of two the number is the exact value
\* rounded to a double; with any other radix it is accumulated in double
\* arithmetic from the first digit that is not 0, as V8 does.  The result is
\* a record: whether it is NaN, whether it is negative, whether it is
\* infinite (2^1024 or more) and its magnitude in decimal digits.
ParseIntRadix(string, radix) ==
  LET trimmed == Drop(string, LeadingWhiteSpace(string))
      signed == trimmed # <<>> /\ trimmed[1] \in {"+", "-"}
      negative == signed /\ trimmed[1] = "-"
      unsigned == IF signed THEN Drop(trimmed, 1) ELSE trimmed
      hex == /\ radix \in {0, 16}
             /\ Len(unsigned) >= 2
             /\ unsigned[1] = "0" /\ unsigned[2] \in {"x", "X"}
      R == IF hex THEN 16 ELSE IF radix = 0 THEN 10 ELSE radix
      body == IF hex THEN Drop(unsigned, 2) ELSE unsigned
      n == LeadingDigits(body, R)
      ds == [i \in 1..n |-> DigitValue(body[i])]
      zeros == CHOOSE z \in 0..n :
                 /\ \A i \in 1..z : ds[i] = 0
                 /\ z = n \/ ds[z + 1] # 0
      number == IF R \in ExactRadixes
                THEN RoundToDouble(NumeralUpTo(ds, n, R))
                ELSE Accumulated(ds, <<>>, zeros + 1, n, R)
      NaN == [nan |-> TRUE, negative |-> FALSE, infinite |-> FALSE,
              value |-> <<"0">>]
  IN IF radix # 0 /\ radix \notin 2..36 THEN NaN
     ELSE IF n = 0 THEN NaN
     ELSE [nan |-> FALSE, negative |-> negative,
           infinite |-> BitLength(number) > DoubleBits,
           value |-> Digits(DecimalFrom(number, 1))]

\* parseInt(req.params.id)
ParseInt(string) == ParseIntRadix(string, 0)

\* x === parseInt(...) for an integer x: NaN is equal to nothing, and -0 is
\* equal to 0.
StrictEquals(x, parsed) ==
  /\ ~parsed.nan /\ ~parsed.infinite
  /\ IF x < 0 THEN parsed.negative /\ parsed.value = Decimal(0 - x)
     ELSE /\ parsed.value = Decimal(x)
          /\ ~parsed.negative \/ x = 0

VARIABLES
  now,      \* the millisecond clock Date.now() reads
  docs,     \* Cloudinary folder bstore_data: name -> [exists, json]
  images,   \* Cloudinary image objects: the set of their public ids
  uploads,  \* raw JSON uploads started by saveJsonToCloudinary, in flight
  req,      \* the requests: slot -> request record
  faults,   \* number of network calls that have failed so far
  quota     \* number of requests the clients issue in this behaviour

vars == <<now, docs, images, uploads, req, faults, quota>>

\* ---------------------------------------------------------------- requests
\* A slot that no request has used yet.  A request record holds the request
\* (kind, param, upfile, body), the public id params() gave to the image
\* upload of the middleware (publicId), what the handler holds in memory (file:
\* req.file; rec: the record it builds; ld: whether the load gave null or a
\* value; data: what ensure returned; idx: findIndex's result), what it has
\* done (saved: the texts it gave to save, in order; failed: the saves whose
\* upload error was logged; destroyed: the public ids it passed to destroy;
\* status, resp: its response, status 0 while there is none) and the requests
\* answered before it arrived (after).
Idle ==
  [kind |-> "none", pc |-> "idle", param |-> "", upfile |-> NoFile,
   file |-> NoStored, body |-> <<>>, rec |-> <<>>, ld |-> "none",
   data |-> <<>>, idx |-> 0, saved |-> <<>>, failed |-> {}, status |-> 0,
   resp |-> <<>>, after |-> {}, destroyed |-> {}, publicId |-> "",
   reply |-> [null |-> TRUE, json |-> <<>>]]

\* Requests arrive in slot order.
NextSlot(r) ==
  /\ r <= quota
  /\ req[r].pc = "idle"
  /\ \A q \in Slots : q < r => req[q].pc # "idle"

\* The requests whose response the client has received.
Responded == {q \in Slots : req[q].status # 0}

\* A request as it enters the server.
Arrival(kind, param, f, body) ==
  [Idle EXCEPT !.kind = kind, !.param = param, !.upfile = f, !.body = body,
               !.after = Responded]

\* An error passed to Express by the multer middleware: the default error
\* handler answers 500 and the route handler never runs.
MulterError(a) == [a EXCEPT !.pc = "done", !.status = 500]

\* The middleware has called params() and started the upload of the file
\* part under public id pid; next() is called when Cloudinary has answered.
Uploading(a, pid) == [a EXCEPT !.pc = "upload", !.publicId = pid]

\* A rejected promise of an async route handler (a throw, or a rejected
\* await, outside any try): Express 4 leaves the request without a response
\* (status 0), Express 5 passes the error on and answers 500.
AbortStatus == {0, 500}

\* ---------------------------------------------------------- document store
\* saveJsonToCloudinary(publicId, jsonData): serialises now and starts the
\* upload stream; the value awaited is the stream, so the caller continues
\* at once and never sees the upload's error.  The result is the upload in
\* flight (k tells the saves of one request apart).
saveJsonToCloudinary(r, k, publicId, jsonData) ==
  [by |-> r, seq |-> k, name |-> publicId,
   json |-> JSONstringify(publicId, jsonData)]

\* The document a handler works on.
DocOf(kind) ==
  CASE kind \in {"GET /products", "POST /products", "PUT /products/:id",
                 "DELETE /products/:id"} -> "products"
    [] kind \in {"GET /receipts", "POST /upload",
                 "DELETE /receipts/:orderId"} -> "receipts"
    [] OTHER -> "settings"

\* loadJsonFromCloudinary's catch: whatever failed, the load gives null.
NullReply(publicId) == [null |-> TRUE, json |-> DefaultOf(publicId)]

\* What a handler remembers of load's result.
LdOf(ld) == IF ld.null THEN "null" ELSE "value"

\* ensureJsonExists(publicId, defaultValue), given load's result: the value
\* it returns ...
ensureJsonExists(ld, defaultValue) ==
  IF ld.null THEN defaultValue ELSE ld.json

\* Mutant of EnsureUploads: the default is saved whatever the load returned.
EnsureUploadsAlways(r, publicId, ld, defaultValue) ==
  {saveJsonToCloudinary(r, 1, publicId, defaultValue)}

\* ... and the uploads it starts (if (!data) save the default).
EnsureUploads(r, publicId, ld, defaultValue) ==
  IF ld.null THEN {saveJsonToCloudinary(r, 1, publicId, defaultValue)} ELSE {}

\* The json of a set of at most two uploads of one request, in order.
SavedOf(ups) ==
  LET first == {u \in ups : u.seq = 1}
      second == {u \in ups : u.seq = 2}
  IN (IF first = {} THEN <<>> ELSE <<(CHOOSE u \in first : TRUE).json>>)
     \o (IF second = {} THEN <<>> ELSE <<(CHOOSE u \in second : TRUE).json>>)

\* Mutant of Overwrite: the store merges, keeping the records it holds and
\* adding those of the uploaded array that it lacks.
OverwriteMerging(old, text) ==
  [exists |-> TRUE,
   json |-> old.json \o
            SelectSeq(text, LAMBDA x : \A i \in 1..Len(old.json) : old.json[i] # x)]

\* Mutant of Overwrite: the store merges key by key, keeping the stored value
\* of every key (or position) the uploaded text lacks.
OverwriteMergingKeys(old, text) ==
  [exists |-> TRUE,
   json |-> IF old.exists
            THEN [k \in DOMAIN old.json \cup DOMAIN text |->
                    IF k \in DOMAIN text THEN text[k] ELSE old.json[k]]
            ELSE text]

\* upload_stream with overwrite: true: the stored object becomes the
\* uploaded text, whatever was stored.
Overwrite(old, text) == [exists |-> TRUE, json |-> text]

\* cloudinary.uploader.destroy(publicId): the object is removed if present.
Destroy(imgs, publicId) == imgs \ {publicId}

\* --------------------------------------------------------------------- Init
\* A fresh deployment: no document, no image, no request.
Fresh ==
  /\ now = 1
  /\ docs = [n \in DocNames |-> [exists |-> FALSE, json |-> DefaultOf(n)]]
  /\ images = {}
  /\ uploads = {}
  /\ req = [r \in Slots |-> Idle]
  /\ faults = 0

\* The clients use every endpoint.
Init == Fresh /\ quota = MaxReqAll

\* The clients use the endpoints of one collection only.
InitOne == Fresh /\ quota = MaxReq

\* The clock reading of the requests answered before the server started.
Earlier == 0

\* The clock advances by a millisecond.
Tick ==
  /\ now < MaxClock
  /\ now' = now + 1
  /\ UNCHANGED <<docs, images, uploads, req, faults, quota>>

\* The upload_stream callback of one save: the upload has landed, or it has
\* failed and the error is logged (console.error) and dropped.
JsonUploadDone ==
  \E u \in uploads :
    /\ uploads' = uploads \ {u}
    /\ \/ /\ docs' = [docs EXCEPT ![u.name] = Overwrite(@, u.json)]
          /\ UNCHANGED faults
          /\ UNCHANGED req
       \/ /\ faults < MaxFaults
          /\ faults' = faults + 1
          /\ req' = [req EXCEPT ![u.by].failed = @ \cup {u.seq}]
          /\ UNCHANGED docs
    /\ UNCHANGED <<now, images, quota>>

\* loadJsonFromCloudinary, line 156: the store serves the lookup
\* cloudinary.api.resource of a load that a handler has started.  A document
\* that is there is fetched next; a document that is not there, or a failing
\* lookup, is an error: the catch makes the load's answer null.  The answer
\* reaches the handler in a later step.
LoadResource ==
  \E r \in Slots :
    /\ req[r].pc = "load"
    /\ LET publicId == DocOf(req[r].kind)
       IN \/ /\ docs[publicId].exists
             /\ req' = [req EXCEPT ![r].pc = "fetch"]
             /\ UNCHANGED faults
          \/ /\ ~docs[publicId].exists
             /\ req' = [req EXCEPT ![r].pc = "loaded",
                                   ![r].reply = NullReply(publicId)]
             /\ UNCHANGED faults
          \/ /\ docs[publicId].exists /\ faults < MaxFaults
             /\ faults' = faults + 1
             /\ req' = [req EXCEPT ![r].pc = "loaded",
                                   ![r].reply = NullReply(publicId)]
    /\ UNCHANGED <<now, docs, images, uploads, quota>>

\* loadJsonFromCloudinary, lines 159-160: the store serves the fetch of the
\* document's secure_url with the text it holds now, which res.json() will
\* parse; a failing fetch is caught and makes the load's answer null.
LoadFetch ==
  \E r \in Slots :
    /\ req[r].pc = "fetch"
    /\ LET publicId == DocOf(req[r].kind)
       IN \/ /\ req' = [req EXCEPT ![r].pc = "loaded",
                            ![r].reply = [null |-> FALSE,
                                          json |-> JSONparse(docs[publicId].json)]]
             /\ UNCHANGED faults
          \/ /\ faults < MaxFaults
             /\ faults' = faults + 1
             /\ req' = [req EXCEPT ![r].pc = "loaded",
                                   ![r].reply = NullReply(publicId)]
    /\ UNCHANGED <<now, docs, images, uploads, quota>>

\* ----------------------------------------------------------------- settings
\* POST /upload-qrcode arrives: uploadQR.single("qrCode") starts the upload
\* of the file part; without a file part the handler runs at once: 400.
PostUploadQrcodeArrive ==
  \E r \in Slots, f \in Files :
    /\ NextSlot(r)
    /\ LET a == Arrival("POST /upload-qrcode", "", f, <<>>)
       IN IF UploadQrOutcome(f) = "none"
          THEN req' = [req EXCEPT ![r] = [a EXCEPT !.pc = "done", !.status = 400]]
          ELSE req' = [req EXCEPT ![r] = Uploading(a, QrPublicId)]
    /\ UNCHANGED <<now, docs, images, uploads, faults, quota>>

\* POST /upload-qrcode: the image upload has ended: an error goes to
\* Express, or the image is stored and the handler runs; it awaits nothing
\* but the save and so runs to its response at once.
PostUploadQrcode ==
  \E r \in Slots :
    /\ req[r].kind = "POST /upload-qrcode" /\ req[r].pc = "upload"
    /\ LET file == StoredFile(req[r].publicId)
           settings == [qrCodeUrl |-> file.path, cloudinaryId |-> file.filename]
           up == saveJsonToCloudinary(r, 1, "settings", settings)
       IN IF UploadQrOutcome(req[r].upfile) = "error"
          THEN /\ req' = [req EXCEPT ![r] = MulterError(@)]
               /\ UNCHANGED <<images, uploads>>
          ELSE /\ images' = images \cup {req[r].publicId}
               /\ uploads' = uploads \cup {up}
               /\ req' = [req EXCEPT ![r] =
                    [@ EXCEPT !.pc = "done", !.file = file, !.rec = settings,
                              !.saved = <<up.json>>, !.status = 200,
                              !.resp = settings]]
    /\ UNCHANGED <<now, docs, faults, quota>>

\* GET /settings arrives; the handler starts ensureJsonExists("settings").
GetSettingsArrive ==
  \E r \in Slots :
    /\ NextSlot(r)
    /\ req' = [req EXCEPT ![r] = [Arrival("GET /settings", "", NoFile, <<>>)
                                   EXCEPT !.pc = "load"]]
    /\ UNCHANGED <<now, docs, images, uploads, faults, quota>>

\* GET /settings: the load's answer reaches the handler; ensure, then res.json(settings).
GetSettings ==
  \E r \in Slots :
    /\ req[r].kind = "GET /settings" /\ req[r].pc = "loaded"
    /\ LET ld == req[r].reply
             d == [qrCodeUrl |-> ""]
             settings == ensureJsonExists(ld, d)
             ups == EnsureUploads(r, "settings", ld, d)
         IN /\ uploads' = uploads \cup ups
            /\ req' = [req EXCEPT ![r] =
                 [@ EXCEPT !.pc = "done", !.ld = LdOf(ld), !.data = settings,
                           !.saved = SavedOf(ups), !.status = 200,
                           !.resp = settings]]
    /\ UNCHANGED <<now, docs, images, faults, quota>>

\* ----------------------------------------------------------------- receipts
\* The cartItems form field: a JSON array of one cart line (with a field the
\* server does not keep), JSON that is not an array, text that is not JSON,
\* or no such field.
CartArrayText == "[{id:1,name:tea,price:3.00,quantity:2,image:tea.jpg}]"
CartObjectText == "{}"
CartTexts == {CartArrayText, CartObjectText, "oops", Undefined}

\* JSON.parse(cartItems): throws on undefined and on text that is not JSON.
JSONparseCart(text) ==
  CASE text = CartArrayText ->
         [throws |-> FALSE, array |-> TRUE,
          value |-> <<[id |-> 1, name |-> "tea", price |-> "3.00",
                       quantity |-> 2, image |-> "tea.jpg"]>>]
    [] text = CartObjectText ->
         [throws |-> FALSE, array |-> FALSE, value |-> <<>>]
    [] OTHER ->
         [throws |-> TRUE, array |-> FALSE, value |-> <<>>]

\* Mutant of ParsedCart: no catch, the parse error escapes the handler.
ParsedCartNoCatch(text) ==
  LET p == JSONparseCart(text)
  IN [array |-> p.array, value |-> p.value]

\* try { cartItems = JSON.parse(cartItems) } catch { cartItems = [] }
ParsedCart(text) ==
  LET p == JSONparseCart(text)
  IN IF p.throws THEN [array |-> TRUE, value |-> <<>>]
     ELSE [array |-> p.array, value |-> p.value]

\* cartItems.map(item => ({id, name, price, quantity}))
MinimalCartItems(items) ==
  [i \in 1..Len(items) |->
     [id |-> items[i].id, name |-> items[i].name, price |-> items[i].price,
      quantity |-> items[i].quantity]]

\* new Date().toISOString() at clock reading t.
ISOString(t) == "T" \o ToString(t)

\* The bodies clients send with POST /upload.
UploadBody(orderId, timestamp, cart) ==
  [total |-> Undefined, timestamp |-> timestamp, note |-> Undefined,
   cname |-> Undefined, orderId |-> orderId, paymentMethod |-> Undefined,
   cartItems |-> cart]

\* The requests clients send to POST /upload: a file part and a body.  One
\* body leaves the orderId and the timestamp to the server's clock.
UploadInputs ==
  { [file |-> NoFile, body |-> UploadBody("A", "T0", CartArrayText)],
    [file |-> [fmt |-> "jpg", size |-> 1],
     body |-> UploadBody("A", "T0", "oops")],
    [file |-> NoFile, body |-> UploadBody(Undefined, Undefined, Undefined)],
    [file |-> NoFile, body |-> UploadBody("A", "T0", CartObjectText)],
    [file |-> [fmt |-> "jpg", size |-> FileSizeLimit + 1],
     body |-> UploadBody("A", "T0", CartArrayText)] }

\* receiptMeta, built from the body and req.file; t is the reading of
\* Date.now() for the orderId, u the later reading of new Date() for
\* uploadedAt.
ReceiptMeta(body, file, t, u) ==
  LET meta == [orderId |-> Or(body.orderId, "ORD" \o ToString(t)),
               cname |-> Or(body.cname, ""),
               note |-> Or(body.note, ""),
               total |-> Or(body.total, "0.00"),
               paymentMethod |-> Or(body.paymentMethod, ""),
               uploadedAt |-> Or(body.timestamp, ISOString(u)),
               cartItems |-> MinimalCartItems(ParsedCart(body.cartItems).value)]
  IN IF file = NoStored THEN meta
     ELSE meta @@ [receiptUrl |-> file.path, cloudinaryId |-> file.filename]

\* receipts.unshift(receiptMeta)
Unshift(receipts, receiptMeta) == <<receiptMeta>> \o receipts

\* Mutant of Splice: the head is removed whatever the index, as
\* array.splice(0, 1).
SpliceHead(array, index) == Tail(array)

\* array.splice(index, 1), index counted from 1.
Splice(array, index) ==
  [i \in 1..(Len(array) - 1) |-> IF i < index THEN array[i] ELSE array[i + 1]]

\* receipts.findIndex(r => r.orderId === orderId), counted from 1; 0 is
\* JavaScript's -1.
FindReceipt(receipts, orderId) ==
  IF \E i \in 1..Len(receipts) : receipts[i].orderId = orderId
  THEN CHOOSE i \in 1..Len(receipts) :
         /\ receipts[i].orderId = orderId
         /\ \A j \in 1..(i - 1) : receipts[j].orderId # orderId
  ELSE 0

\* The handler of POST /upload up to its first await, with req.file = file:
\* it parses the cart and builds receiptMeta, reading the clock twice (the
\* clock may advance between the readings).  A cart that parses but is no
\* array makes cartItems.map throw.
PostUploadHandler(r, a, file) ==
  IF ParsedCart(a.body.cartItems).array
  THEN \E u \in {now, now + 1} \cap (1..MaxClock) :
         /\ now' = u
         /\ req' = [req EXCEPT ![r] =
              [a EXCEPT !.pc = "load", !.file = file,
                        !.rec = ReceiptMeta(a.body, file, now, u)]]
  ELSE /\ \E st \in AbortStatus :
            req' = [req EXCEPT ![r] =
              [a EXCEPT !.pc = "failed", !.file = file, !.status = st]]
       /\ UNCHANGED now

\* POST /upload arrives: uploadImage.single("receipt") starts the upload of
\* the file part (public_id: Date.now()); without a file part the handler
\* runs at once.
PostUploadArrive ==
  \E r \in Slots, in \in UploadInputs :
    /\ NextSlot(r)
    /\ LET a == Arrival("POST /upload", "", in.file, in.body)
       IN IF UploadImageOutcome(in.file) = "none"
          THEN PostUploadHandler(r, a, NoStored)
          ELSE /\ req' = [req EXCEPT ![r] = Uploading(a, ImagePublicId(now))]
               /\ UNCHANGED now
    /\ UNCHANGED <<docs, images, uploads, faults, quota>>

\* POST /upload: the image upload has ended: an error goes to Express, or
\* the image is stored and the handler runs to its first await.
PostUploadUploaded ==
  \E r \in Slots :
    /\ req[r].kind = "POST /upload" /\ req[r].pc = "upload"
    /\ IF UploadImageOutcome(req[r].upfile) = "error"
       THEN /\ req' = [req EXCEPT ![r] = MulterError(@)]
            /\ UNCHANGED <<now, images>>
       ELSE /\ images' = images \cup {req[r].publicId}
            /\ PostUploadHandler(r, req[r], StoredFile(req[r].publicId))
    /\ UNCHANGED <<docs, uploads, faults, quota>>

\* POST /upload: the load's answer reaches the handler; ensure, unshift, save, res.json.
PostUpload ==
  \E r \in Slots :
    /\ req[r].kind = "POST /upload" /\ req[r].pc = "loaded"
    /\ LET ld == req[r].reply
             receipts == ensureJsonExists(ld, <<>>)
             unshifted == Unshift(receipts, req[r].rec)
             ups == EnsureUploads(r, "receipts", ld, <<>>)
                    \cup {saveJsonToCloudinary(r, 2, "receipts", unshifted)}
         IN /\ uploads' = uploads \cup ups
            /\ req' = [req EXCEPT ![r] =
                 [@ EXCEPT !.pc = "done", !.ld = LdOf(ld), !.data = receipts,
                           !.saved = SavedOf(ups), !.status = 200,
                           !.resp = req[r].rec]]
    /\ UNCHANGED <<now, docs, images, faults, quota>>

\* GET /receipts arrives; the handler starts ensureJsonExists("receipts").
GetReceiptsArrive ==
  \E r \in Slots :
    /\ NextSlot(r)
    /\ req' = [req EXCEPT ![r] = [Arrival("GET /receipts", "", NoFile, <<>>)
                                   EXCEPT !.pc = "load"]]
    /\ UNCHANGED <<now, docs, images, uploads, faults, quota>>

\* GET /receipts: the load's answer reaches the handler; ensure, then res.json(receipts).
GetReceipts ==
  \E r \in Slots :
    /\ req[r].kind = "GET /receipts" /\ req[r].pc = "loaded"
    /\ LET ld == req[r].reply
             receipts == ensureJsonExists(ld, <<>>)
             ups == EnsureUploads(r, "receipts", ld, <<>>)
         IN /\ uploads' = uploads \cup ups
            /\ req' = [req EXCEPT ![r] =
                 [@ EXCEPT !.pc = "done", !.ld = LdOf(ld), !.data = receipts,
                           !.saved = SavedOf(ups), !.status = 200,
                           !.resp = receipts]]
    /\ UNCHANGED <<now, docs, images, faults, quota>>

\* The order ids clients ask to delete ("A" is unknown while no stored
\* receipt has it).
DeleteOrderIds == {"A"}

\* DELETE /receipts/:orderId arrives; the handler starts ensureJsonExists.
DeleteReceiptArrive ==
  \E r \in Slots, orderId \in DeleteOrderIds :
    /\ NextSlot(r)
    /\ req' = [req EXCEPT ![r] =
         [Arrival("DELETE /receipts/:orderId", orderId, NoFile, <<>>)
            EXCEPT !.pc = "load"]]
    /\ UNCHANGED <<now, docs, images, uploads, faults, quota>>

\* DELETE /receipts/:orderId: the load's answer reaches the handler; ensure, findIndex, then 404,
\* or splice, save and the response.
DeleteReceipt ==
  \E r \in Slots :
    /\ req[r].kind = "DELETE /receipts/:orderId" /\ req[r].pc = "loaded"
    /\ LET ld == req[r].reply
             receipts == ensureJsonExists(ld, <<>>)
             index == FindReceipt(receipts, req[r].param)
             ups == EnsureUploads(r, "receipts", ld, <<>>)
                    \cup (IF index = 0 THEN {}
                          ELSE {saveJsonToCloudinary(r, 2, "receipts",
                                                     Splice(receipts, index))})
         IN /\ uploads' = uploads \cup ups
            /\ req' = [req EXCEPT ![r] =
                 [@ EXCEPT !.pc = "done", !.ld = LdOf(ld), !.data = receipts,
                           !.idx = index,
                           !.saved = SavedOf(ups),
                           !.status = IF index = 0 THEN 404 ELSE 200]]
    /\ UNCHANGED <<now, docs, images, faults, quota>>

\* ----------------------------------------------------------------- products
ProductBody(name, price, description) ==
  [name |-> name, price |-> price, description |-> description]

\* The requests clients send to POST /products: a file part and a body.
PostProductInputs ==
  { [file |-> [fmt |-> "jpg", size |-> 1],
     body |-> ProductBody("tea", "3.00", Undefined)],
    [file |-> NoFile, body |-> ProductBody("tea", "3.00", Undefined)],
    [file |-> [fmt |-> "jpg", size |-> FileSizeLimit + 1],
     body |-> ProductBody("tea", "3.00", Undefined)],
    [file |-> [fmt |-> "pdf", size |-> 1],
     body |-> ProductBody("tea", "3.00", Undefined)] }

\* The requests clients send to PUT /products/:id (id 1 is unknown while no
\* stored product has it).
PutProductInputs ==
  { [id |-> <<"1">>, file |-> NoFile,
     body |-> ProductBody(Undefined, "5.00", Undefined)],
    [id |-> <<"1">>, file |-> [fmt |-> "jpg", size |-> 1],
     body |-> ProductBody("chai", Undefined, Undefined)],
    [id |-> <<"1">>, file |-> [fmt |-> "pdf", size |-> 1],
     body |-> ProductBody("chai", Undefined, Undefined)] }

\* The ids clients ask to delete (id 1 is unknown while no stored product
\* has it).
DeleteProductIds == {<<"1">>}

\* newProduct, built at clock reading t.
NewProduct(body, file, t) ==
  [id |-> t, name |-> body.name, price |-> body.price,
   description |-> body.description, imageUrl |-> file.path,
   cloudinaryId |-> file.filename]

\* products.push(newProduct)
Push(products, newProduct) == Append(products, newProduct)

\* products.findIndex(p => p.id === id), counted from 1; 0 is JavaScript's -1.
FindProduct(products, id) ==
  IF \E i \in 1..Len(products) : StrictEquals(products[i].id, id)
  THEN CHOOSE i \in 1..Len(products) :
         /\ StrictEquals(products[i].id, id)
         /\ \A j \in 1..(i - 1) : ~StrictEquals(products[j].id, id)
  ELSE 0

\* if (product.cloudinaryId): the record names an image to destroy.
HasImage(product) == Get(product, "cloudinaryId") \notin {Undefined, ""}

\* Mutant of UpdatedProduct: every body field is assigned, supplied or not.
UpdatedProductAssigningAll(product, body, file) ==
  [id |-> product.id,
   name |-> body.name,
   price |-> body.price,
   description |-> body.description,
   imageUrl |-> IF file = NoStored THEN Get(product, "imageUrl") ELSE file.path,
   cloudinaryId |-> IF file = NoStored THEN Get(product, "cloudinaryId")
                    ELSE file.filename]

\* PUT's assignments to products[index]: the image reference when a file
\* was stored, and each body field that is truthy.
UpdatedProduct(product, body, file) ==
  [id |-> product.id,
   name |-> Or(body.name, Get(product, "name")),
   price |-> Or(body.price, Get(product, "price")),
   description |-> Or(body.description, Get(product, "description")),
   imageUrl |-> IF file = NoStored THEN Get(product, "imageUrl") ELSE file.path,
   cloudinaryId |-> IF file = NoStored THEN Get(product, "cloudinaryId")
                    ELSE file.filename]

\* GET /products arrives; the handler starts ensureJsonExists("products").
GetProductsArrive ==
  \E r \in Slots :
    /\ NextSlot(r)
    /\ req' = [req EXCEPT ![r] = [Arrival("GET /products", "", NoFile, <<>>)
                                   EXCEPT !.pc = "load"]]
    /\ UNCHANGED <<now, docs, images, uploads, faults, quota>>

\* GET /products: the load's answer reaches the handler; ensure, then res.json(products).
GetProducts ==
  \E r \in Slots :
    /\ req[r].kind = "GET /products" /\ req[r].pc = "loaded"
    /\ LET ld == req[r].reply
             products == ensureJsonExists(ld, <<>>)
             ups == EnsureUploads(r, "products", ld, <<>>)
         IN /\ uploads' = uploads \cup ups
            /\ req' = [req EXCEPT ![r] =
                 [@ EXCEPT !.pc = "done", !.ld = LdOf(ld), !.data = products,
                           !.saved = SavedOf(ups), !.status = 200,
                           !.resp = products]]
    /\ UNCHANGED <<now, docs, images, faults, quota>>

\* POST /products arrives: uploadImage.single("image") starts the upload of
\* the file part (public_id: Date.now()); without a file part the handler
\* runs at once: 400.
PostProductsArrive ==
  \E r \in Slots, in \in PostProductInputs :
    /\ NextSlot(r)
    /\ LET a == Arrival("POST /products", "", in.file, in.body)
       IN IF UploadImageOutcome(in.file) = "none"
          THEN req' = [req EXCEPT ![r] = [a EXCEPT !.pc = "done", !.status = 400]]
          ELSE req' = [req EXCEPT ![r] = Uploading(a, ImagePublicId(now))]
    /\ UNCHANGED <<now, docs, images, uploads, faults, quota>>

\* POST /products: the image upload has ended: an error goes to Express, or
\* the image is stored and the handler starts ensureJsonExists("products").
PostProductsUploaded ==
  \E r \in Slots :
    /\ req[r].kind = "POST /products" /\ req[r].pc = "upload"
    /\ IF UploadImageOutcome(req[r].upfile) = "error"
       THEN /\ req' = [req EXCEPT ![r] = MulterError(@)]
            /\ UNCHANGED images
       ELSE /\ images' = images \cup {req[r].publicId}
            /\ req' = [req EXCEPT ![r] =
                 [@ EXCEPT !.pc = "load", !.file = StoredFile(req[r].publicId)]]
    /\ UNCHANGED <<now, docs, uploads, faults, quota>>

\* POST /products: the load's answer reaches the handler; ensure, newProduct (id: Date.now()),
\* push, save, res.json.
PostProducts ==
  \E r \in Slots :
    /\ req[r].kind = "POST /products" /\ req[r].pc = "loaded"
    /\ LET ld == req[r].reply
             products == ensureJsonExists(ld, <<>>)
             newProduct == NewProduct(req[r].body, req[r].file, now)
             ups == EnsureUploads(r, "products", ld, <<>>)
                    \cup {saveJsonToCloudinary(r, 2, "products",
                                               Push(products, newProduct))}
         IN /\ uploads' = uploads \cup ups
            /\ req' = [req EXCEPT ![r] =
                 [@ EXCEPT !.pc = "done", !.ld = LdOf(ld), !.data = products,
                           !.rec = StringifyObject(newProduct),
                           !.saved = SavedOf(ups), !.status = 200,
                           !.resp = StringifyObject(newProduct)]]
    /\ UNCHANGED <<now, docs, images, faults, quota>>

\* PUT /products/:id arrives: uploadImage.single("image") starts the upload
\* of the file part; without a file part the handler runs at once and
\* starts ensureJsonExists("products").
PutProductArrive ==
  \E r \in Slots, in \in PutProductInputs :
    /\ NextSlot(r)
    /\ LET a == Arrival("PUT /products/:id", in.id, in.file, in.body)
       IN IF UploadImageOutcome(in.file) = "none"
          THEN req' = [req EXCEPT ![r] = [a EXCEPT !.pc = "load"]]
          ELSE req' = [req EXCEPT ![r] = Uploading(a, ImagePublicId(now))]
    /\ UNCHANGED <<now, docs, images, uploads, faults, quota>>

\* PUT /products/:id: the image upload has ended: an error goes to Express,
\* or the image is stored and the handler starts ensureJsonExists.
PutProductUploaded ==
  \E r \in Slots :
    /\ req[r].kind = "PUT /products/:id" /\ req[r].pc = "upload"
    /\ IF UploadImageOutcome(req[r].upfile) = "error"
       THEN /\ req' = [req EXCEPT ![r] = MulterError(@)]
            /\ UNCHANGED images
       ELSE /\ images' = images \cup {req[r].publicId}
            /\ req' = [req EXCEPT ![r] =
                 [@ EXCEPT !.pc = "load", !.file = StoredFile(req[r].publicId)]]
    /\ UNCHANGED <<now, docs, uploads, faults, quota>>

\* The end of PUT's handler: the assignments, the save, the response.
PutProductFinish(r, products, index, ups1, ldv) ==
  LET updated == UpdatedProduct(products[index], req[r].body, req[r].file)
      ups == ups1 \cup {saveJsonToCloudinary(r, 2, "products",
                          [products EXCEPT ![index] = updated])}
  IN /\ uploads' = uploads \cup ups
     /\ req' = [req EXCEPT ![r] =
          [@ EXCEPT !.pc = "done", !.ld = ldv, !.data = products,
                    !.idx = index, !.rec = StringifyObject(updated),
                    !.saved = @ \o SavedOf(ups), !.status = 200,
                    !.resp = StringifyObject(updated)]]

\* PUT /products/:id: the load's answer reaches the handler; ensure, findIndex, then 404, or the
\* destroy of the old image is started (a new file and an old image), or
\* the handler runs to its end.
PutProductLoad ==
  \E r \in Slots :
    /\ req[r].kind = "PUT /products/:id" /\ req[r].pc = "loaded"
    /\ LET ld == req[r].reply
             products == ensureJsonExists(ld, <<>>)
             index == FindProduct(products, ParseInt(req[r].param))
             ups == EnsureUploads(r, "products", ld, <<>>)
         IN CASE index = 0 ->
                      /\ uploads' = uploads \cup ups
                      /\ req' = [req EXCEPT ![r] =
                           [@ EXCEPT !.pc = "done", !.ld = LdOf(ld), !.data = products,
                                     !.saved = SavedOf(ups), !.status = 404]]
                 [] index # 0 /\ req[r].file # NoStored /\ HasImage(products[index]) ->
                      /\ uploads' = uploads \cup ups
                      /\ req' = [req EXCEPT ![r] =
                           [@ EXCEPT !.pc = "destroy", !.ld = LdOf(ld), !.data = products,
                                     !.idx = index, !.saved = SavedOf(ups),
                                     !.destroyed = {products[index].cloudinaryId}]]
                 [] OTHER ->
                      PutProductFinish(r, products, index, ups, LdOf(ld))
    /\ UNCHANGED <<now, docs, images, faults, quota>>

\* PUT /products/:id: the destroy of the old image returns.  It is awaited
\* outside any try: when it rejects, the handler's promise rejects.
PutProductDestroyed ==
  \E r \in Slots :
    /\ req[r].kind = "PUT /products/:id" /\ req[r].pc = "destroy"
    /\ \/ /\ images' = Destroy(images, req[r].data[req[r].idx].cloudinaryId)
          /\ PutProductFinish(r, req[r].data, req[r].idx, {}, req[r].ld)
          /\ UNCHANGED faults
       \/ /\ faults < MaxFaults
          /\ faults' = faults + 1
          /\ \E st \in AbortStatus :
               req' = [req EXCEPT ![r] = [@ EXCEPT !.pc = "failed", !.status = st]]
          /\ UNCHANGED <<images, uploads>>
    /\ UNCHANGED <<now, docs, quota>>

\* DELETE /products/:id arrives; the handler starts ensureJsonExists.
DeleteProductArrive ==
  \E r \in Slots, id \in DeleteProductIds :
    /\ NextSlot(r)
    /\ req' = [req EXCEPT ![r] =
         [Arrival("DELETE /products/:id", id, NoFile, <<>>) EXCEPT !.pc = "load"]]
    /\ UNCHANGED <<now, docs, images, uploads, faults, quota>>

\* The end of DELETE's handler: splice, save, the response.
DeleteProductFinish(r, products, index, ups1, ldv) ==
  LET ups == ups1 \cup {saveJsonToCloudinary(r, 2, "products",
                                             Splice(products, index))}
  IN /\ uploads' = uploads \cup ups
     /\ req' = [req EXCEPT ![r] =
          [@ EXCEPT !.pc = "done", !.ld = ldv, !.data = products,
                    !.idx = index, !.saved = @ \o SavedOf(ups),
                    !.status = 200]]

\* DELETE /products/:id: the load's answer reaches the handler; ensure, findIndex, then 404, or
\* the destroy of the product's image is started, or (no image) the handler
\* runs to its end.
DeleteProductLoad ==
  \E r \in Slots :
    /\ req[r].kind = "DELETE /products/:id" /\ req[r].pc = "loaded"
    /\ LET ld == req[r].reply
             products == ensureJsonExists(ld, <<>>)
             index == FindProduct(products, ParseInt(req[r].param))
             ups == EnsureUploads(r, "products", ld, <<>>)
         IN CASE index = 0 ->
                      /\ uploads' = uploads \cup ups
                      /\ req' = [req EXCEPT ![r] =
                           [@ EXCEPT !.pc = "done", !.ld = LdOf(ld), !.data = products,
                                     !.saved = SavedOf(ups), !.status = 404]]
                 [] index # 0 /\ HasImage(products[index]) ->
                      /\ uploads' = uploads \cup ups
                      /\ req' = [req EXCEPT ![r] =
                           [@ EXCEPT !.pc = "destroy", !.ld = LdOf(ld), !.data = products,
                                     !.idx = index, !.saved = SavedOf(ups),
                                     !.destroyed = {products[index].cloudinaryId}]]
                 [] OTHER ->
                      DeleteProductFinish(r, products, index, ups, LdOf(ld))
    /\ UNCHANGED <<now, docs, images, faults, quota>>

\* DELETE /products/:id: the destroy of the image returns.  It is awaited
\* outside any try: when it rejects, the handler's promise rejects.
DeleteProductDestroyed ==
  \E r \in Slots :
    /\ req[r].kind = "DELETE /products/:id" /\ req[r].pc = "destroy"
    /\ \/ /\ images' = Destroy(images, req[r].data[req[r].idx].cloudinaryId)
          /\ DeleteProductFinish(r, req[r].data, req[r].idx, {}, req[r].ld)
          /\ UNCHANGED faults
       \/ /\ faults < MaxFaults
          /\ faults' = faults + 1
          /\ \E st \in AbortStatus :
               req' = [req EXCEPT ![r] = [@ EXCEPT !.pc = "failed", !.status = st]]
          /\ UNCHANGED <<images, uploads>>
    /\ UNCHANGED <<now, docs, quota>>

\* The store's and the clock's own steps.
Environment ==
  \/ Tick
  \/ JsonUploadDone
  \/ LoadResource
  \/ LoadFetch

NextSettings ==
  \/ Environment
  \/ PostUploadQrcodeArrive
  \/ PostUploadQrcode
  \/ GetSettingsArrive
  \/ GetSettings

NextReceipts ==
  \/ Environment
  \/ PostUploadArrive
  \/ PostUploadUploaded
  \/ PostUpload
  \/ GetReceiptsArrive
  \/ GetReceipts
  \/ DeleteReceiptArrive
  \/ DeleteReceipt

NextProducts ==
  \/ Environment
  \/ GetProductsArrive
  \/ GetProducts
  \/ PostProductsArrive
  \/ PostProductsUploaded
  \/ PostProducts
  \/ PutProductArrive
  \/ PutProductUploaded
  \/ PutProductLoad
  \/ PutProductDestroyed
  \/ DeleteProductArrive
  \/ DeleteProductLoad
  \/ DeleteProductDestroyed

Next ==
  \/ NextSettings
  \/ NextReceipts
  \/ NextProducts

Spec == Init /\ [][Next]_vars
SpecSettings == InitOne /\ [][NextSettings]_vars
SpecProducts == InitOne /\ [][NextProducts]_vars

\* ------------------------------------------------------------ a used store
\* The documents and the images live in the Cloudinary account and outlive
\* the server process: a server that starts finds what was stored before.
\*
\* The receipts that three earlier POST /upload built, oldest first, each
\* from an input of UploadInputs: order A with a receipt image and a cart
\* that does not parse, an order that left the orderId to the clock, and
\* order A again without an image.
EarlierReceipts ==
  << ReceiptMeta(UploadBody("A", "T0", "oops"),
                 StoredFile(ImagePublicId(Earlier)), Earlier, Earlier),
     ReceiptMeta(UploadBody(Undefined, Undefined, Undefined),
                 NoStored, Earlier, Earlier),
     ReceiptMeta(UploadBody("A", "T0", CartArrayText),
                 NoStored, Earlier, Earlier) >>

\* The receipts collection after the first n of them (lines 253-255: each
\* was unshifted onto the collection before it).
RECURSIVE ReceiptsAfter(_)
ReceiptsAfter(n) ==
  IF n = 0 THEN <<>> ELSE Unshift(ReceiptsAfter(n - 1), EarlierReceipts[n])

\* An asset id that this server did not write: the image bstore_products/1
\* named with its file extension and without its folder.  The local-JSON
\* variant's DELETE /products/:id (src/unnamed/part_000, lines 238-244)
\* rewrites such an id before it calls destroy; this server's upload
\* middleware writes bstore_products/<clock reading> only.
ForeignAssetId == "1.jpg"

\* A products collection whose record holds that asset id: the record of a
\* POST /products at clock reading 1, but for the id of its image.
ForeignProducts ==
  << NewProduct(ProductBody("tea", "3.00", Undefined),
                [path |-> SecureUrl(ImagePublicId(1)),
                 filename |-> ForeignAssetId], 1) >>

\* The server starts on a store in use, idle: documents holds the documents
\* stored before and imgs the images.
Stored(documents, imgs) ==
  /\ now = 1
  /\ docs = [d \in DocNames |->
               IF d \in DOMAIN documents
               THEN [exists |-> TRUE, json |-> JSONstringify(d, documents[d])]
               ELSE [exists |-> FALSE, json |-> DefaultOf(d)]]
  /\ images = imgs
  /\ uploads = {}
  /\ req = [r \in Slots |-> Idle]
  /\ faults = 0
  /\ quota = MaxReqAll

\* The store holds the receipts of one, two or three earlier uploads and the
\* receipt image of the first.
InitStoredReceipts ==
  \E n \in 1..Len(EarlierReceipts) :
    Stored([receipts |-> ReceiptsAfter(n)], {ImagePublicId(Earlier)})

\* The store holds the products collection with the asset id written
\* elsewhere, and the image it means.
InitStoredProducts ==
  Stored([products |-> ForeignProducts], {ImagePublicId(1)})

SpecStoredReceipts == InitStoredReceipts /\ [][NextReceipts]_vars
SpecStoredProducts == InitStoredProducts /\ [][NextProducts]_vars

\* The steps the server and the store take by themselves: a network call
\* that was started returns or fails, and the handler that awaits it goes on.
Progress ==
  \/ JsonUploadDone
  \/ LoadResource
  \/ LoadFetch
  \/ PostUploadQrcode
  \/ GetSettings
  \/ PostUploadUploaded
  \/ PostUpload
  \/ GetReceipts
  \/ DeleteReceipt
  \/ GetProducts
  \/ PostProductsUploaded
  \/ PostProducts
  \/ PutProductUploaded
  \/ PutProductLoad
  \/ PutProductDestroyed
  \/ DeleteProductLoad
  \/ DeleteProductDestroyed

\* A handler's promise has rejected and the request has no answer: nothing
\* handles the rejection (no try, no catch, no error middleware, lines 231,
\* 320, 342), and node from version 15 on ends the process on it; older
\* versions warn and keep serving.
Unhandled == \E r \in Slots : req[r].pc = "failed" /\ req[r].status = 0

\* Every network call ends and its handler goes on, as long as the process
\* runs: after an unhandled rejection the server may stop for good.
SpecLive == Init /\ [][Next]_vars /\ WF_vars(~Unhandled /\ Progress)

\* =================================================================== claims
\* The requests that have arrived.
Arrived == {r \in Slots : req[r].pc # "idle"}

\* The requests other than those of rs that gave a text to save to document n.
OtherSavers(n, rs) ==
  {q \in Arrived \ rs : DocOf(req[q].kind) = n /\ req[q].saved # <<>>}

\* Whether array holds a record equal to rec.
Holds(array, rec) == \E i \in 1..Len(array) : array[i] = rec

\* C1: receipts created one after another (each POST /upload sent after the
\* response to the one before, all answered 200, no other request) and then
\* listed by a GET /receipts sent after the last response are listed newest
\* first: the list's order ids are the created order ids in reverse order.
\* Stated for runs in which no network call fails.
C1_NewestFirst ==
  \A g \in Slots :
    ( /\ req[g].kind = "GET /receipts" /\ req[g].pc = "done"
      /\ faults = 0
      /\ Arrived = 1..g
      /\ req[g].after = 1..(g - 1)
      /\ \A q \in 1..(g - 1) :
           /\ req[q].kind = "POST /upload" /\ req[q].status = 200
           /\ req[q].after = 1..(q - 1) )
    => /\ Len(req[g].resp) = g - 1
       /\ \A i \in 1..(g - 1) : req[g].resp[i].orderId = req[g - i].rec.orderId

\* C2: once a save of a document has returned (the request that saved text v
\* last has been answered), the next load of that document (the load of a
\* request sent after that answer, no other request having saved to the
\* document) returns v.  Stated for runs in which no network call fails.
C2_SaveThenLoad ==
  \A s \in Slots, l \in Slots :
    ( /\ s # l /\ faults = 0
      /\ req[s].status = 200 /\ req[s].saved # <<>>
      /\ req[l].ld # "none" /\ DocOf(req[l].kind) = DocOf(req[s].kind)
      /\ s \in req[l].after
      /\ OtherSavers(DocOf(req[s].kind), {s, l}) = {} )
    => /\ req[l].ld = "value"
       /\ req[l].data = req[s].saved[Len(req[s].saved)]

\* C3: two ensure calls on one document in sequence (two GETs of the same
\* collection, the second sent after the first was answered, no other request
\* having saved to the document) return the same value and start at most one
\* store write in total.  Stated for runs in which no network call fails.
C3_EnsureIdempotent ==
  \A e \in Slots, f \in Slots :
    ( /\ e # f /\ faults = 0
      /\ req[e].kind \in {"GET /products", "GET /receipts", "GET /settings"}
      /\ req[f].kind = req[e].kind
      /\ req[e].pc = "done" /\ req[f].pc = "done"
      /\ e \in req[f].after
      /\ OtherSavers(DocOf(req[e].kind), {e, f}) = {} )
    => /\ req[e].resp = req[f].resp
       /\ Len(req[e].saved) + Len(req[f].saved) <= 1

\* The record a create request (POST /products, POST /upload) adds.
IsCreate(r) == req[r].kind \in {"POST /products", "POST /upload"}

\* Two answered create requests on one collection that loaded the same
\* collection and add different records, neither of them in it, no other
\* request having saved a changed collection.
Raced(a, b) ==
  /\ a # b /\ IsCreate(a) /\ req[b].kind = req[a].kind
  /\ req[a].status = 200 /\ req[b].status = 200
  /\ req[a].data = req[b].data
  /\ req[a].rec # req[b].rec
  /\ ~Holds(req[a].data, req[a].rec) /\ ~Holds(req[a].data, req[b].rec)
  /\ \A q \in OtherSavers(DocOf(req[a].kind), {a, b}) :
       \A i \in 1..Len(req[q].saved) : req[q].saved[i] = <<>>

\* C4: there is no concurrency check, the last writer wins: when two create
\* requests on one collection have raced (both loaded the same collection
\* before either save landed) and both were answered 200, the stored
\* collection never holds both new records: one mutation is lost.
C4_LastWriterWins ==
  \A a \in Slots, b \in Slots :
    Raced(a, b) =>
      LET stored == docs[DocOf(req[a].kind)].json
      IN ~(Holds(stored, req[a].rec) /\ Holds(stored, req[b].rec))

\* C4's case: both raced requests were answered 200, every upload has landed
\* (none in flight, none failed), and the stored collection holds the record
\* of one and not the record of the other.
C4_Witness ==
  \E a \in Slots, b \in Slots :
    /\ Raced(a, b)
    /\ uploads = {} /\ faults = 0
    /\ Holds(docs[DocOf(req[a].kind)].json, req[b].rec)
    /\ ~Holds(docs[DocOf(req[a].kind)].json, req[a].rec)

\* C5: a failing blob delete never fails the request: a DELETE /products/:id
\* or a PUT /products/:id with a new image, on an id found in the collection,
\* that is past its destroy call was answered 200 and has saved the change.
C5_BlobDeleteNeverFails ==
  \A r \in Slots :
    ( /\ req[r].kind \in {"DELETE /products/:id", "PUT /products/:id"}
      /\ req[r].idx # 0
      /\ req[r].pc \in {"done", "failed"} )
    => /\ req[r].status = 200
       /\ req[r].saved # <<>>

\* C6: when the save half of a load-mutate-save cycle fails (the upload of
\* the changed collection ends in an error), the caller is answered 500, not
\* success.
C6_SaveFailureIs500 ==
  \A r \in Slots :
    (2 \in req[r].failed /\ req[r].status # 0) => req[r].status = 500

\* The unknown-id operations.
ByIdKinds ==
  {"PUT /products/:id", "DELETE /products/:id", "DELETE /receipts/:orderId"}

\* Whether the collection the handler of r holds has a record with r's id.
IdKnown(r) ==
  IF req[r].kind = "DELETE /receipts/:orderId"
  THEN \E i \in 1..Len(req[r].data) : req[r].data[i].orderId = req[r].param
  ELSE \E i \in 1..Len(req[r].data) :
         StrictEquals(req[r].data[i].id, ParseInt(req[r].param))

\* C7 as claimed: an operation on an unknown id is answered 404 and performs
\* no write, including when the document did not exist yet.
C7_NotFoundWritesNothing ==
  \A r \in Slots :
    (req[r].kind \in ByIdKinds /\ req[r].ld # "none" /\ req[r].pc = "done"
       /\ ~IdKnown(r))
    => (req[r].status = 404 /\ req[r].saved = <<>>)

\* C7 amended: an operation on an id that is not in the collection the
\* handler obtained is answered 404 (and only such an operation is) and never
\* saves a changed collection: it writes nothing when the load returned the
\* document, and when the load returned null (no document, or a failed load)
\* its only write is ensure's save of the default, the empty collection.
C7_NotFoundWritesOnlyDefault ==
  \A r \in Slots :
    (req[r].kind \in ByIdKinds /\ req[r].ld # "none" /\ req[r].pc = "done")
    => /\ (req[r].status = 404) <=> ~IdKnown(r)
       /\ req[r].status = 404 =>
            /\ req[r].ld = "value" => req[r].saved = <<>>
            /\ req[r].ld = "null" => req[r].saved = << <<>> >>

\* C7's case: an unknown id against a stored, non-empty collection: 404 and
\* nothing written.
C7_Witness ==
  \E r \in Slots :
    /\ req[r].kind \in ByIdKinds /\ req[r].status = 404
    /\ req[r].ld = "value" /\ req[r].data # <<>>
    /\ req[r].saved = <<>>

\* C8: a product created (POST /products, answered 200) and then deleted by
\* its id (DELETE /products/:id sent after that answer, and answered) is
\* absent from a GET /products sent after the delete's answer, no other
\* request having been made.  Stated for runs in which no network call fails.
C8_CreateDeleteList ==
  \A c \in Slots, d \in Slots, g \in Slots :
    ( /\ faults = 0 /\ Arrived = {c, d, g}
      /\ req[c].kind = "POST /products" /\ req[c].status = 200
      /\ req[d].kind = "DELETE /products/:id" /\ req[d].status # 0
      /\ StrictEquals(req[c].rec.id, ParseInt(req[d].param))
      /\ c \in req[d].after
      /\ req[g].kind = "GET /products" /\ req[g].pc = "done"
      /\ d \in req[g].after )
    => \A i \in 1..Len(req[g].resp) : req[g].resp[i].id # req[c].rec.id

\* C9: any two image uploads of products and receipts are stored under
\* different blob ids, and any two created products get different ids.
C9_DistinctIds ==
  \A a \in Slots, b \in Slots :
    ( /\ a # b
      /\ req[a].kind # "POST /upload-qrcode" /\ req[b].kind # "POST /upload-qrcode"
      /\ req[a].file # NoStored /\ req[b].file # NoStored )
    => /\ req[a].file.filename # req[b].file.filename
       /\ ( /\ req[a].kind = "POST /products" /\ req[a].status = 200
            /\ req[b].kind = "POST /products" /\ req[b].status = 200 )
          => req[a].rec.id # req[b].rec.id

\* The upload endpoints and the formats each allows.
UploadKinds ==
  {"POST /products", "PUT /products/:id", "POST /upload", "POST /upload-qrcode"}
AllowedFormats(kind) ==
  IF kind = "POST /upload-qrcode" THEN QrFormats ELSE ImageFormats

\* A request that carries a file of an unsupported type / over the limit.
BadType(r) ==
  /\ req[r].kind \in UploadKinds /\ req[r].upfile # NoFile
  /\ req[r].upfile.fmt \notin AllowedFormats(req[r].kind)
Oversize(r) ==
  /\ req[r].kind \in UploadKinds /\ req[r].upfile # NoFile
  /\ req[r].upfile.size > FileSizeLimit

\* Rejected before any collection mutation: the handler has not loaded,
\* nothing was given to save and, once the upload has ended, the request is
\* answered with an error.
RejectedUntouched(r) ==
  /\ req[r].ld = "none" /\ req[r].saved = <<>> /\ req[r].file = NoStored
  /\ req[r].pc = "upload" \/ (req[r].pc = "done" /\ req[r].status = 500)

\* C10: on every upload endpoint an upload over the size limit or
\* of an unsupported type is rejected before any collection mutation.
C10_BadUploadRejected ==
  \A r \in Slots : (BadType(r) \/ Oversize(r)) => RejectedUntouched(r)

\* The collection an answered PUT /products/:id gave to save.
PutSaved(r) == req[r].saved[Len(req[r].saved)]

\* The answered updates of a product the handler found.
PutDone(r) ==
  /\ req[r].kind = "PUT /products/:id" /\ req[r].status = 200
  /\ req[r].idx # 0 /\ req[r].saved # <<>>

\* C11: PUT /products/:id on an existing product updates only the fields
\* supplied: in the collection it saves, each of name, price and description
\* that the body does not supply has the value it had in the collection the
\* handler loaded, imageUrl and cloudinaryId have their loaded values when no
\* file is attached, the id is kept, and every other product is unchanged and
\* at its position.
C11_UpdateKeepsTheRest ==
  \A r \in Slots :
    PutDone(r) =>
      LET old == req[r].data
          new == PutSaved(r)
          i == req[r].idx
      IN /\ Len(new) = Len(old)
         /\ \A j \in 1..Len(old) : j # i => new[j] = old[j]
         /\ new[i].id = old[i].id
         /\ \A k \in BodyKeys :
              req[r].body[k] = Undefined => Get(new[i], k) = Get(old[i], k)
         /\ req[r].upfile = NoFile =>
              /\ Get(new[i], "imageUrl") = Get(old[i], "imageUrl")
              /\ Get(new[i], "cloudinaryId") = Get(old[i], "cloudinaryId")

\* C11's case: an update that supplies only the price, without a file, of the
\* first of two stored products: the price changes, the name and the image
\* stay, and the second product is in the saved collection.
C11_Witness ==
  \E r \in Slots :
    /\ PutDone(r) /\ req[r].upfile = NoFile
    /\ req[r].body.name = Undefined /\ req[r].body.price # Undefined
    /\ Len(req[r].data) = 2 /\ req[r].idx = 1
    /\ req[r].data[2].id # req[r].data[1].id
    /\ Get(req[r].data[1], "name") # Undefined
    /\ Get(PutSaved(r)[1], "price") = req[r].body.price
    /\ Get(req[r].data[1], "price") # req[r].body.price
    /\ Get(PutSaved(r)[1], "name") = Get(req[r].data[1], "name")
    /\ PutSaved(r)[2] = req[r].data[2]

\* A POST /upload that passed the upload middleware and whose cartItems field
\* is missing or is text that is not JSON.
MalformedCart(r) ==
  /\ req[r].kind = "POST /upload"
  /\ UploadImageOutcome(req[r].upfile) # "error"
  /\ JSONparseCart(req[r].body.cartItems).throws

\* C12: POST /upload whose cartItems field is not valid JSON, or is missing,
\* still succeeds: the handler never fails on it, once the image upload has
\* ended it builds a receipt whose cartItems is the empty sequence, and once
\* it has run to its end it has given a
\* collection headed by that receipt to save and answered 200 with it.
C12_MalformedCartIsEmpty ==
  \A r \in Slots :
    MalformedCart(r) =>
      /\ req[r].pc \in {"upload", "load", "fetch", "loaded", "done"}
      /\ req[r].pc # "upload" => req[r].rec.cartItems = <<>>
      /\ req[r].pc = "done" =>
           /\ req[r].status = 200
           /\ req[r].resp = req[r].rec
           /\ req[r].saved # <<>>
           /\ req[r].saved[Len(req[r].saved)][1] = req[r].rec

\* C12's case: a receipt sent with cartItems "oops" was answered 200 and is
\* in the stored receipts document with an empty cartItems.
C12_Witness ==
  \E r \in Slots :
    /\ MalformedCart(r) /\ req[r].body.cartItems = "oops"
    /\ req[r].status = 200
    /\ Holds(docs["receipts"].json, req[r].rec)
    /\ docs["receipts"].json[1].cartItems = <<>>

\* The answered deletes of a record the handler found, and that record.
DeleteKinds == {"DELETE /products/:id", "DELETE /receipts/:orderId"}
Removed(r) == req[r].data[req[r].idx]
DeleteDone(r) ==
  /\ req[r].kind \in DeleteKinds /\ req[r].status = 200 /\ req[r].idx # 0

\* C13: whenever a delete endpoint (DELETE /products/:id, DELETE
\* /receipts/:orderId) removes a record that carries an asset id, the handler
\* has issued a blob-store delete for that asset.
C13_DeleteDestroysAsset ==
  \A r \in Slots :
    (DeleteDone(r) /\ HasImage(Removed(r)))
    => Removed(r).cloudinaryId \in req[r].destroyed

\* The answered QR-code uploads.
QrDone(r) == req[r].kind = "POST /upload-qrcode" /\ req[r].status = 200

\* The image objects outside the folder of product and receipt images.
QrObjects == images \ {ImagePublicId(t) : t \in 1..MaxClock}

\* C14: the QR-code namespace of the blob store never holds more than one
\* object, the object store_qrcode, and the settings document is replaced
\* wholesale: every answered POST /upload-qrcode gave exactly its record
\* {qrCodeUrl, cloudinaryId} to save, and the stored settings document is
\* always the default or the whole record of one such upload, never a merge.
C14_QrSingleton ==
  /\ QrObjects \subseteq {QrPublicId}
  /\ Cardinality(QrObjects) <= 1
  /\ \A r \in Slots :
       QrDone(r) =>
         /\ req[r].rec = [qrCodeUrl |-> req[r].file.path,
                          cloudinaryId |-> QrPublicId]
         /\ req[r].saved = <<req[r].rec>>
  /\ docs["settings"].exists =>
       \/ docs["settings"].json = DefaultOf("settings")
       \/ \E r \in Slots : QrDone(r) /\ docs["settings"].json = req[r].rec

\* C14's case: two QR codes were uploaded, the second after the default
\* settings were stored; one QR object is held and the settings document is
\* the upload's record.
C14_Witness ==
  \E a \in Slots, b \in Slots, g \in Slots :
    /\ a # b /\ QrDone(a) /\ QrDone(b)
    /\ req[g].kind = "GET /settings" /\ req[g].saved # <<>> /\ g \in req[b].after
    /\ uploads = {} /\ faults = 0
    /\ QrObjects = {QrPublicId}
    /\ docs["settings"].json = req[b].rec

\* The products folder name, and the asset ids that occur in the store, as
\* sequences of characters.
ProductsFolder ==
  <<"b", "s", "t", "o", "r", "e", "_", "p", "r", "o", "d", "u", "c", "t", "s", "/">>
AssetIdCharacters ==
  {ProductsFolder \o Decimal(t) : t \in Earlier..MaxClock}
    \cup {<<"1", ".", "j", "p", "g">>, <<>>}

\* The string a sequence of characters spells, and the characters of an
\* asset id.
RECURSIVE Text(_)
Text(s) == IF s = <<>> THEN "" ELSE s[1] \o Text(Tail(s))
Characters(id) == CHOOSE s \in AssetIdCharacters : Text(s) = id

\* A file extension: a dot, then one or more characters other than "." and
\* the folder separator.
IsExtension(e) ==
  /\ Len(e) >= 2 /\ e[1] = "."
  /\ \A j \in 2..Len(e) : e[j] \notin {".", "/"}

\* The first n characters of id are id without its trailing extension (all
\* of id when it has none).
IsStem(id, n) ==
  \/ IsExtension(SubSeq(id, n + 1, Len(id)))
  \/ /\ n = Len(id)
     /\ \A m \in 0..Len(id) : ~IsExtension(SubSeq(id, m + 1, Len(id)))

\* The product deletions that have found their record and gone on to the
\* blob-store delete.
DeleteFound(r) ==
  /\ req[r].kind = "DELETE /products/:id" /\ req[r].idx # 0
  /\ req[r].pc \in {"destroy", "done", "failed"}

\* kept, in the same relative order.
C16_DeleteFirstMatch ==
  \A r \in Slots :
    ( /\ req[r].kind = "DELETE /receipts/:orderId" /\ req[r].pc = "done"
      /\ \E i \in 1..Len(req[r].data) : req[r].data[i].orderId = req[r].param )
    => LET old == req[r].data
           new == req[r].saved[Len(req[r].saved)]
           i == req[r].idx
       IN /\ req[r].status = 200 /\ req[r].saved # <<>>
          /\ i \in 1..Len(old)
          /\ old[i].orderId = req[r].param
          /\ \A j \in 1..(i - 1) : old[j].orderId # req[r].param
          /\ Len(new) = Len(old) - 1
          /\ \A j \in 1..Len(new) : new[j] = IF j < i THEN old[j] ELSE old[j + 1]

\* C16's case: four different receipts were loaded; the first whose orderId
\* matches is the second of them, the head and the third have another
\* orderId and the fourth matches too.  The second is removed: the head, the
\* third and the fourth are what is saved, in that order, and stored.
C16_Witness ==
  \E r \in Slots :
    /\ req[r].kind = "DELETE /receipts/:orderId" /\ req[r].status = 200
    /\ Len(req[r].data) = 4 /\ req[r].idx = 2
    /\ req[r].data[1].orderId # req[r].param
    /\ req[r].data[2].orderId = req[r].param
    /\ req[r].data[3].orderId # req[r].param
    /\ req[r].data[4].orderId = req[r].param
    /\ \A i \in 1..4 : \A j \in 1..4 : i # j => req[r].data[i] # req[r].data[j]
    /\ req[r].saved = << <<req[r].data[1], req[r].data[3], req[r].data[4]>> >>
    /\ docs["receipts"].json = <<req[r].data[1], req[r].data[3], req[r].data[4]>>

\* The read-only endpoints.
GetKinds == {"GET /products", "GET /receipts", "GET /settings"}

\* C17: a read-only endpoint never changes the content of a document that
\* exists in the store: no step in which the upload started by a GET lands
\* replaces a non-empty stored collection, or a non-default settings record,
\* by another value.
C17_GetNeverReplaces ==
  [][ \A n \in DocNames :
        ( /\ docs[n].exists /\ docs[n].json # DefaultOf(n)
          /\ docs'[n] # docs[n] )
        => ~(\E u \in uploads \ uploads' : req[u.by].kind \in GetKinds) ]_vars

\* C18: no dangling image reference: in every reachable state, every product
\* of the stored products collection that carries an asset id references an
\* image that is in the blob store.
C18_NoDanglingImage ==
  \A i \in 1..Len(docs["products"].json) :
    HasImage(docs["products"].json[i])
    => docs["products"].json[i].cloudinaryId \in images

\* C19: every request that entered the server eventually receives a
\* response, also when a destroy or a document-store call fails during the
\* handling and when the cartItems of POST /upload is JSON that is no array.
C19_EveryRequestAnswered ==
  \A r \in Slots : (req[r].pc # "idle") ~> (req[r].status # 0)

====
